---- MODULE Spec2Model ----
(***************************************************************************)
(* Model of the s_driver character device driver                           *)
(* (src/drivers/s_driver/s_driver-part1.c).                                *)
(*                                                                         *)
(* The driver's state is the module-scope array devs[NUM_MINORS] (a cdev,  *)
(* a 512-byte buffer and a size_t size each) and the global major.  The    *)
(* host kernel is modelled as far as the driver uses it: the table of      *)
(* acquired device-number regions (chrdevs), the map of added cdevs        *)
(* (cdev_map), the open files with their position cursors (files), and     *)
(* the user-memory copy primitives copy_to_user / copy_from_user.          *)
(*                                                                         *)
(* Memory is modelled at byte granularity.  buffer is the sequence of its   *)
(* bytes: buffer[x + 1] is the C buffer[x].  size is kept as its           *)
(* SIZEOF_SIZE_T little-endian bytes, which in struct s_driver_dev_data    *)
(* follow buffer[BUFSIZE - 1] directly (LP64: sizeof(struct cdev) is a     *)
(* multiple of 8, so there is no padding).  The subtraction                *)
(* data->size - *offset is done on those bytes, modulo 2^64.               *)
(***************************************************************************)
EXTENDS Integers, Sequences, FiniteSets, TLC

(* ---------------------------------------------------------------------- *)
(* Program constants                                                       *)
(* ---------------------------------------------------------------------- *)
BUFSIZE == 512
NUM_MINORS == 1
FIRST_MINOR == 1
\* "Hello World\n"
MESSAGE == <<72, 101, 108, 108, 111, 32, 87, 111, 114, 108, 100, 10>>
\* sizeof(MESSAGE): the literal's bytes and its terminating NUL
SizeofMESSAGE == Len(MESSAGE) + 1
EFAULT == 14
\* sizeof(size_t) on the LP64 kernel build
SIZEOF_SIZE_T == 8

(* ---------------------------------------------------------------------- *)
(* Bounds of the model                                                     *)
(* ---------------------------------------------------------------------- *)
\* number of read/write calls in one behaviour
MaxOps == 2
\* length of the prefix of a user region that is accessible when the
\* region is not wholly accessible
PartialValid == 4
\* number of read/write calls in one behaviour of SpecSeq
MaxSeqOps == 3

\* the major number alloc_chrdev_region hands out
DynMajors == {240}
\* open file descriptions, one for each open() call
Handles == {1, 2}
\* requested lengths
Counts == {9, 12, 512}
\* caller-supplied positions of positioned calls (pread/pwrite)
Positions == {500, 513}
\* a user region is wholly accessible ("all") or only its first
\* PartialValid bytes are ("part")
Regions == {"all", "part"}
\* the bytes of the user's source region: "test data", repeated
USER_DATA == <<116, 101, 115, 116, 32, 100, 97, 116, 97>>

Minors == 0 .. (NUM_MINORS - 1)
\* a byte of memory outside devs[], whose value the driver does not set
UNKNOWN == -1
\* the zero-filled buffer of .bss
ZeroBuffer == [x \in 1 .. BUFSIZE |-> 0]
\* buffer as init_func leaves it: the greeting, its NUL, and the zeros of .bss
Init_buffer ==
    Append(MESSAGE, 0) \o SubSeq(ZeroBuffer, SizeofMESSAGE + 1, BUFSIZE)
\* the memory that follows devs[]
Beyond == [x \in 1 .. (2 * BUFSIZE) |-> UNKNOWN]
\* a file that has not been opened yet, and one that has been released: a
\* handle stands for one open() call and is not used again after release
NoFile == [open |-> FALSE, released |-> FALSE, private_data |-> -1, f_pos |-> 0]
Released == [NoFile EXCEPT !.released = TRUE]

VARIABLES
    devs,       \* devs[i] = [buffer, size, cdev]
    major,      \* int major
    chrdevs,    \* device-number regions held: records [major, first, count]
    cdev_map,   \* added cdevs: records [major, minor, dev]
    files,      \* files[h] = [open, private_data, f_pos]
    pc,         \* position of the module loader in init_func / exit_func
    idx,        \* the loop variable i of init_func / exit_func
    last,       \* the last call made and what it did
    wrote,      \* the number of write calls made, and the last one that
                \* stored bytes
    nops,       \* number of read/write calls made
    rd,         \* the s_read call whose copy_to_user is under way
    wr          \* the s_write call whose copy_from_user is under way

vars == <<devs, major, chrdevs, cdev_map, files, pc, idx, last, wrote, nops,
          rd, wr>>

Min(a, b) == IF a <= b THEN a ELSE b

(* ---------------------------------------------------------------------- *)
(* size_t arithmetic on little-endian bytes                                *)
(* ---------------------------------------------------------------------- *)
\* the bytes of n (0 <= n < 2^24) as a size_t
ToSizeT(n) ==
    [k \in 1 .. SIZEOF_SIZE_T |->
        IF k <= 3 THEN (n \div (256 ^ (k - 1))) % 256 ELSE 0]

\* a - b modulo 2^(8 * SIZEOF_SIZE_T), byte by byte with borrow
RECURSIVE SubSizeT(_, _, _, _)
SubSizeT(a, b, k, borrow) ==
    IF k > SIZEOF_SIZE_T THEN <<>>
    ELSE LET d == a[k] - b[k] - borrow
         IN  <<d % 256>> \o SubSizeT(a, b, k + 1, IF d < 0 THEN 1 ELSE 0)

\* min(a, n) for a size_t a and 0 <= n < 2^24
MinSizeT(a, n) ==
    IF \E k \in 4 .. SIZEOF_SIZE_T : a[k] # 0 THEN n
    ELSE Min(a[1] + 256 * a[2] + 65536 * a[3], n)

\* size_t len = min((size_t)(data->size - *offset), size);
EffectiveLen(d, count, off) ==
    MinSizeT(SubSizeT(d.size, ToSizeT(off), 1, 0), count)

(* ---------------------------------------------------------------------- *)
(* Memory of one struct s_driver_dev_data, addressed from buffer           *)
(* ---------------------------------------------------------------------- *)
\* the memory from buffer on: Mem(d)[a + 1] is the byte at buffer + a
Mem(d) == d.buffer \o d.size \o Beyond

\* MemRange with the range taken one byte too far
MemRange_Mut(d, a, n) == SubSeq(Mem(d), a + 2, a + n + 1)

\* the n bytes at buffer + a
MemRange(d, a, n) == SubSeq(Mem(d), a + 1, a + n)

\* MemStore that ends what it stores with a NUL byte
MemStore_Mut(d, a, bytes) ==
    LET m == Mem(d)
        z == Append(bytes, 0)
        w == SubSeq(m, 1, a) \o z \o SubSeq(m, a + Len(z) + 1, Len(m))
    IN  [d EXCEPT
            !.buffer = SubSeq(w, 1, BUFSIZE),
            !.size = SubSeq(w, BUFSIZE + 1, BUFSIZE + SIZEOF_SIZE_T)]

\* d after bytes[1 .. Len(bytes)] are stored at buffer + a
MemStore(d, a, bytes) ==
    LET m == Mem(d)
        w == SubSeq(m, 1, a) \o bytes \o SubSeq(m, a + Len(bytes) + 1, Len(m))
    IN  [d EXCEPT
            !.buffer = SubSeq(w, 1, BUFSIZE),
            !.size = SubSeq(w, BUFSIZE + 1, BUFSIZE + SIZEOF_SIZE_T)]

(* ---------------------------------------------------------------------- *)
(* User-memory copy primitives of the host kernel                          *)
(* ---------------------------------------------------------------------- *)
\* number of bytes of an n-byte user region that can be accessed
Accessible(region, n) == IF region = "all" THEN n ELSE Min(PartialValid, n)

\* what the user's source region holds, and its first n bytes
USER_REGION ==
    [j \in 1 .. (2 * BUFSIZE) |-> USER_DATA[((j - 1) % Len(USER_DATA)) + 1]]
UserBytes(n) == SubSeq(USER_REGION, 1, n)

\* copy_to_user: number of bytes that could not be copied
copy_to_user(region, n) == n - Accessible(region, n)

\* copy_from_user: the number of bytes that could not be copied and what
\* ends up in the n-byte kernel destination; the part that could not be
\* copied is zero-filled
copy_from_user(region, n) ==
    LET ok == Accessible(region, n)
    IN  [notcopied |-> n - ok,
         bytes |-> UserBytes(ok) \o SubSeq(ZeroBuffer, 1, n - ok)]

(* ---------------------------------------------------------------------- *)
(* s_read / s_write as functions of the device data and the arguments      *)
(* ---------------------------------------------------------------------- *)
\* Result of a call: ret, the value of *offset at return (off), the local
\* len, the bytes that reached the user region (data, reads only), the
\* range [lo, hi) of indices from buffer that were accessed, and the device
\* data the call leaves (dev).
\* s_read with *offset advanced by the requested size instead of len
s_read_Mut(d, region, count, off) ==
    LET len == EffectiveLen(d, count, off)
        notcopied == copy_to_user(region, len)
    IN  IF len <= 0
        THEN [ret |-> 0, off |-> off, len |-> len, data |-> <<>>,
              lo |-> off, hi |-> off, dev |-> d]
        ELSE IF notcopied # 0
        THEN [ret |-> -EFAULT, off |-> off, len |-> len,
              data |-> MemRange(d, off, len - notcopied),
              lo |-> off, hi |-> off + (len - notcopied), dev |-> d]
        ELSE [ret |-> len, off |-> off + count, len |-> len,
              data |-> MemRange(d, off, len),
              lo |-> off, hi |-> off + len, dev |-> d]

s_read(d, region, count, off) ==
    LET len == EffectiveLen(d, count, off)
        notcopied == copy_to_user(region, len)
    IN  IF len <= 0
        THEN [ret |-> 0, off |-> off, len |-> len, data |-> <<>>,
              lo |-> off, hi |-> off, dev |-> d]
        ELSE IF notcopied # 0
        THEN [ret |-> -EFAULT, off |-> off, len |-> len,
              data |-> MemRange(d, off, len - notcopied),
              lo |-> off, hi |-> off + (len - notcopied), dev |-> d]
        ELSE [ret |-> len, off |-> off + len, len |-> len,
              data |-> MemRange(d, off, len),
              lo |-> off, hi |-> off + len, dev |-> d]

\* s_write with *offset advanced before the result of the copy is looked at
s_write_Mut(d, region, count, off) ==
    LET len == EffectiveLen(d, count, off)
        stored == copy_from_user(region, len)
    IN  IF len <= 0
        THEN [ret |-> 0, off |-> off, len |-> len, data |-> <<>>,
              lo |-> off, hi |-> off, dev |-> d]
        ELSE [ret |-> IF stored.notcopied # 0 THEN -EFAULT ELSE len,
              off |-> off + len, len |-> len, data |-> <<>>,
              lo |-> off, hi |-> off + len,
              dev |-> MemStore(d, off, stored.bytes)]

s_write(d, region, count, off) ==
    LET len == EffectiveLen(d, count, off)
        stored == copy_from_user(region, len)
    IN  IF len <= 0
        THEN [ret |-> 0, off |-> off, len |-> len, data |-> <<>>,
              lo |-> off, hi |-> off, dev |-> d]
        ELSE IF stored.notcopied # 0
        THEN [ret |-> -EFAULT, off |-> off, len |-> len, data |-> <<>>,
              lo |-> off, hi |-> off + len,
              dev |-> MemStore(d, off, stored.bytes)]
        ELSE [ret |-> len, off |-> off + len, len |-> len, data |-> <<>>,
              lo |-> off, hi |-> off + len,
              dev |-> MemStore(d, off, stored.bytes)]

(* ---------------------------------------------------------------------- *)
(* Initial state: the module is not loaded; devs[] is zero-filled .bss     *)
(* ---------------------------------------------------------------------- *)
NoCall == [op |-> "none", h |-> 0, pos |-> FALSE, region |-> "all",
           count |-> 0, off |-> 0, ret |-> 0, noff |-> 0, len |-> 0,
           data |-> <<>>, lo |-> 0, hi |-> 0]
\* no s_read / s_write call is under way: pc is where the call stands, k
\* the number of bytes its copy has moved, data the bytes a read has put
\* into the user region, before / after the buffer when a write was
\* entered / returned, wr0 / wr1 where the write stood when a read was
\* entered / returned
NoRd == [pc |-> "idle", h |-> 0, region |-> "all", off |-> 0, len |-> 0,
         k |-> 0, data |-> <<>>, ret |-> 0, wr0 |-> "idle", wr1 |-> "idle"]
NoWr == [pc |-> "idle", h |-> 0, region |-> "all", off |-> 0, len |-> 0,
         k |-> 0, before |-> <<>>, after |-> <<>>, ret |-> 0]
\* no write has been made
NoWrite == [calls |-> 0, h |-> 0, off |-> 0, count |-> 0, ret |-> 0]

Init ==
    /\ devs = [i \in Minors |->
                 [buffer |-> ZeroBuffer,
                  size |-> ToSizeT(0),
                  cdev |-> "zero"]]
    /\ major = 0
    /\ chrdevs = {}
    /\ cdev_map = {}
    /\ files = [h \in Handles |-> NoFile]
    /\ pc = "unloaded"
    /\ idx = 0
    /\ last = NoCall
    /\ wrote = NoWrite
    /\ nops = 0
    /\ rd = NoRd
    /\ wr = NoWr

(* ---------------------------------------------------------------------- *)
(* init_func                                                               *)
(* ---------------------------------------------------------------------- *)
\* InitAllocOk with the test of the return value turned round: the range
\* is acquired and init_func returns 1
InitAllocOk_Mut ==
    /\ pc = "unloaded"
    /\ \E m \in DynMajors :
        chrdevs' = chrdevs \cup
              {[major |-> m, first |-> FIRST_MINOR, count |-> NUM_MINORS]}
    /\ pc' = "init_failed"
    /\ last' = [NoCall EXCEPT !.op = "init_func", !.ret = 1]
    /\ UNCHANGED <<devs, major, cdev_map, files, idx, wrote, nops, rd, wr>>

\* alloc_chrdev_region(&dev, FIRST_MINOR, NUM_MINORS, NAME) succeeds
InitAllocOk ==
    /\ pc = "unloaded"
    /\ \E m \in DynMajors :
        /\ chrdevs' = chrdevs \cup
              {[major |-> m, first |-> FIRST_MINOR, count |-> NUM_MINORS]}
        /\ major' = m
    /\ pc' = "init_loop"
    /\ idx' = 0
    /\ last' = [NoCall EXCEPT !.op = "alloc_chrdev_region"]
    /\ UNCHANGED <<devs, cdev_map, files, wrote, nops, rd, wr>>

\* alloc_chrdev_region fails: "Registration failed", return 1
InitAllocFail ==
    /\ pc = "unloaded"
    /\ pc' = "init_failed"
    /\ last' = [NoCall EXCEPT !.op = "init_func", !.ret = 1]
    /\ UNCHANGED <<devs, major, chrdevs, cdev_map, files, idx, wrote, nops, rd, wr>>

\* InitMemcpy with the size of a pointer for the size of the literal
InitMemcpy_Mut ==
    /\ pc = "init_loop"
    /\ idx < NUM_MINORS
    /\ devs' = [devs EXCEPT ![idx] =
                  MemStore(@, 0, SubSeq(MESSAGE, 1, SIZEOF_SIZE_T))]
    /\ pc' = "init_size"
    /\ last' = [NoCall EXCEPT !.op = "memcpy"]
    /\ UNCHANGED <<major, chrdevs, cdev_map, files, idx, wrote, nops, rd, wr>>

\* memcpy(devs[i].buffer, MESSAGE, sizeof(MESSAGE));
InitMemcpy ==
    /\ pc = "init_loop"
    /\ idx < NUM_MINORS
    /\ devs' = [devs EXCEPT ![idx] =
                  MemStore(@, 0, Append(MESSAGE, 0))]
    /\ pc' = "init_size"
    /\ last' = [NoCall EXCEPT !.op = "memcpy"]
    /\ UNCHANGED <<major, chrdevs, cdev_map, files, idx, wrote, nops, rd, wr>>

\* InitSize with the assignment to size left out
InitSize_Mut ==
    /\ pc = "init_size"
    /\ pc' = "init_cdev"
    /\ last' = [NoCall EXCEPT !.op = "size"]
    /\ UNCHANGED <<devs, major, chrdevs, cdev_map, files, idx, wrote, nops, rd, wr>>

\* devs[i].size = BUFSIZE;
InitSize ==
    /\ pc = "init_size"
    /\ devs' = [devs EXCEPT ![idx].size = ToSizeT(BUFSIZE)]
    /\ pc' = "init_cdev"
    /\ last' = [NoCall EXCEPT !.op = "size"]
    /\ UNCHANGED <<major, chrdevs, cdev_map, files, idx, wrote, nops, rd, wr>>

\* cdev_init(&devs[i].cdev, &fops); cdev_add(&devs[i].cdev, MKDEV(major, i), 1);
\* cdev_add can fail in the host; its return value is not looked at
InitCdevAdd ==
    /\ pc = "init_cdev"
    /\ \E ok \in BOOLEAN :
        IF ok
        THEN /\ cdev_map' = cdev_map \cup
                    {[major |-> major, minor |-> idx, dev |-> idx]}
             /\ devs' = [devs EXCEPT ![idx].cdev = "added"]
        ELSE /\ cdev_map' = cdev_map
             /\ devs' = [devs EXCEPT ![idx].cdev = "init"]
    /\ idx' = idx + 1
    /\ pc' = "init_loop"
    /\ last' = [NoCall EXCEPT !.op = "cdev_add"]
    /\ UNCHANGED <<major, chrdevs, files, wrote, nops, rd, wr>>

\* "Module successfuly initialized", return 0
InitDone ==
    /\ pc = "init_loop"
    /\ idx >= NUM_MINORS
    /\ pc' = "loaded"
    /\ last' = [NoCall EXCEPT !.op = "init_func", !.ret = 0]
    /\ UNCHANGED <<devs, major, chrdevs, cdev_map, files, idx, wrote, nops, rd, wr>>

(* ---------------------------------------------------------------------- *)
(* exit_func; the module loader runs it only when no file is open          *)
(* (fops.owner = THIS_MODULE pins the module while files are open)         *)
(* ---------------------------------------------------------------------- *)
ExitStart ==
    /\ pc = "loaded"
    /\ \A h \in Handles : ~files[h].open
    /\ pc' = "exit_loop"
    /\ idx' = 0
    /\ last' = [NoCall EXCEPT !.op = "exit_start"]
    /\ UNCHANGED <<devs, major, chrdevs, cdev_map, files, wrote, nops, rd, wr>>

\* ExitCdevDel with the call of cdev_del left out
ExitCdevDel_Mut ==
    /\ pc = "exit_loop"
    /\ idx < NUM_MINORS
    /\ idx' = idx + 1
    /\ last' = [NoCall EXCEPT !.op = "cdev_del"]
    /\ UNCHANGED <<devs, major, chrdevs, cdev_map, files, pc, wrote, nops, rd, wr>>

\* cdev_del(&devs[i].cdev);
ExitCdevDel ==
    /\ pc = "exit_loop"
    /\ idx < NUM_MINORS
    /\ cdev_map' = {c \in cdev_map : c.dev # idx}
    /\ devs' = [devs EXCEPT ![idx].cdev = "deleted"]
    /\ idx' = idx + 1
    /\ last' = [NoCall EXCEPT !.op = "cdev_del"]
    /\ UNCHANGED <<major, chrdevs, files, pc, wrote, nops, rd, wr>>

\* unregister_chrdev_region(MKDEV(major, FIRST_MINOR), NUM_MINORS);
ExitUnregister ==
    /\ pc = "exit_loop"
    /\ idx >= NUM_MINORS
    /\ chrdevs' = chrdevs \
          {[major |-> major, first |-> FIRST_MINOR, count |-> NUM_MINORS]}
    /\ pc' = "exited"
    /\ last' = [NoCall EXCEPT !.op = "exit_func"]
    /\ UNCHANGED <<devs, major, cdev_map, files, idx, wrote, nops, rd, wr>>

(* ---------------------------------------------------------------------- *)
(* File operations                                                         *)
(* ---------------------------------------------------------------------- *)
\* the module can be entered through its file operations
Live == pc \in {"init_loop", "init_size", "init_cdev", "loaded"}

\* data = container_of(inode->i_cdev, ...); file->private_data = data;
s_open(h, c) ==
    /\ Live
    /\ c \in cdev_map
    /\ ~files[h].open /\ ~files[h].released
    /\ files' = [files EXCEPT ![h] =
                    [open |-> TRUE, released |-> FALSE,
                     private_data |-> c.dev, f_pos |-> 0]]
    /\ last' = [NoCall EXCEPT !.op = "open", !.h = h, !.ret = 0]
    /\ UNCHANGED <<devs, major, chrdevs, cdev_map, pc, idx, wrote, nops, rd, wr>>

\* s_release that clears the buffer when a file is closed
s_release_Mut(h) ==
    /\ Live
    /\ files[h].open
    /\ devs' = [devs EXCEPT ![files[h].private_data].buffer = ZeroBuffer]
    /\ files' = [files EXCEPT ![h] = Released]
    /\ last' = [NoCall EXCEPT !.op = "release", !.h = h, !.ret = 0]
    /\ UNCHANGED <<major, chrdevs, cdev_map, pc, idx, wrote, nops, rd, wr>>

\* return 0; the host then frees the file
s_release(h) ==
    /\ Live
    /\ files[h].open
    /\ files' = [files EXCEPT ![h] = Released]
    /\ last' = [NoCall EXCEPT !.op = "release", !.h = h, !.ret = 0]
    /\ UNCHANGED <<devs, major, chrdevs, cdev_map, pc, idx, wrote, nops, rd, wr>>

\* Finish with the position kept in the device instead of in the file:
\* every file open on the device gets the new position
Finish_Mut(op, h, pos, region, count, off, r) ==
    /\ devs' = [devs EXCEPT ![files[h].private_data] = r.dev]
    /\ files' = IF pos THEN files
                ELSE [g \in Handles |->
                        IF files[g].open
                           /\ files[g].private_data = files[h].private_data
                        THEN [files[g] EXCEPT !.f_pos = r.off]
                        ELSE files[g]]
    /\ last' = [op |-> op, h |-> h, pos |-> pos, region |-> region,
                count |-> count, off |-> off, ret |-> r.ret, noff |-> r.off,
                len |-> r.len, data |-> r.data, lo |-> r.lo, hi |-> r.hi]
    /\ wrote' = IF op = "write" /\ r.len > 0
                THEN [calls |-> wrote.calls + 1, h |-> h, off |-> off,
                      count |-> count, ret |-> r.ret]
                ELSE IF op = "write"
                THEN [wrote EXCEPT !.calls = @ + 1]
                ELSE wrote
    /\ nops' = nops + 1
    /\ UNCHANGED <<major, chrdevs, cdev_map, pc, idx, rd, wr>>

\* what a call leaves behind: the device, the cursor (a positioned call
\* works on a copy of the position and leaves f_pos alone), the record
Finish(op, h, pos, region, count, off, r) ==
    /\ devs' = [devs EXCEPT ![files[h].private_data] = r.dev]
    /\ files' = IF pos THEN files
                ELSE [files EXCEPT ![h].f_pos = r.off]
    /\ last' = [op |-> op, h |-> h, pos |-> pos, region |-> region,
                count |-> count, off |-> off, ret |-> r.ret, noff |-> r.off,
                len |-> r.len, data |-> r.data, lo |-> r.lo, hi |-> r.hi]
    /\ wrote' = IF op = "write" /\ r.len > 0
                THEN [calls |-> wrote.calls + 1, h |-> h, off |-> off,
                      count |-> count, ret |-> r.ret]
                ELSE IF op = "write"
                THEN [wrote EXCEPT !.calls = @ + 1]
                ELSE wrote
    /\ nops' = nops + 1
    /\ UNCHANGED <<major, chrdevs, cdev_map, pc, idx, rd, wr>>

\* read(2): s_read with offset = &file->f_pos
Read(h, region, count) ==
    /\ Live /\ files[h].open /\ nops < MaxOps
    /\ \E r \in {s_read(devs[files[h].private_data], region, count,
                         files[h].f_pos)} :
            Finish("read", h, FALSE, region, count, files[h].f_pos, r)

\* pread(2): s_read with offset = the caller's position
PRead(h, region, count, off) ==
    /\ Live /\ files[h].open /\ nops < MaxOps
    /\ \E r \in {s_read(devs[files[h].private_data], region, count, off)} :
            Finish("read", h, TRUE, region, count, off, r)

\* write(2): s_write with offset = &file->f_pos
Write(h, region, count) ==
    /\ Live /\ files[h].open /\ nops < MaxOps
    /\ \E r \in {s_write(devs[files[h].private_data], region, count,
                          files[h].f_pos)} :
            Finish("write", h, FALSE, region, count, files[h].f_pos, r)

\* pwrite(2): s_write with offset = the caller's position
PWrite(h, region, count, off) ==
    /\ Live /\ files[h].open /\ nops < MaxOps
    /\ \E r \in {s_write(devs[files[h].private_data], region, count, off)} :
            Finish("write", h, TRUE, region, count, off, r)

Next ==
    \/ InitAllocOk
    \/ InitAllocFail
    \/ InitMemcpy
    \/ InitSize
    \/ InitCdevAdd
    \/ InitDone
    \/ ExitStart
    \/ ExitCdevDel
    \/ ExitUnregister
    \/ \E h \in Handles, c \in cdev_map : s_open(h, c)
    \/ \E h \in Handles : s_release(h)
    \/ \E h \in Handles, g \in Regions, n \in Counts : Read(h, g, n)
    \/ \E h \in Handles, g \in Regions, n \in Counts, o \in Positions :
            PRead(h, g, n, o)
    \/ \E h \in Handles, g \in Regions, n \in Counts : Write(h, g, n)
    \/ \E h \in Handles, g \in Regions, n \in Counts, o \in Positions :
            PWrite(h, g, n, o)

Spec == Init /\ [][Next]_vars

(* ---------------------------------------------------------------------- *)
(* The loaded module under sequential use: init_func has returned 0 with   *)
(* every cdev added; files are opened, read and written through f_pos,     *)
(* written at a position, and released.                                    *)
(* ---------------------------------------------------------------------- *)
\* the state init_func leaves when alloc_chrdev_region and cdev_add succeed
Loaded ==
    \E m \in DynMajors :
        /\ devs = [i \in Minors |->
                     [buffer |-> Init_buffer,
                      size |-> ToSizeT(BUFSIZE),
                      cdev |-> "added"]]
        /\ major = m
        /\ chrdevs = {[major |-> m, first |-> FIRST_MINOR, count |-> NUM_MINORS]}
        /\ cdev_map = {[major |-> m, minor |-> i, dev |-> i] : i \in Minors}
        /\ files = [h \in Handles |-> NoFile]
        /\ pc = "loaded"
        /\ idx = NUM_MINORS
        /\ last = [NoCall EXCEPT !.op = "init_func", !.ret = 0]
        /\ wrote = NoWrite
        /\ nops = 0
        /\ rd = NoRd
        /\ wr = NoWr

\* read(2): s_read with offset = &file->f_pos
SeqRead(h, region, count) ==
    /\ files[h].open /\ nops < MaxSeqOps
    /\ \E r \in {s_read(devs[files[h].private_data], region, count,
                         files[h].f_pos)} :
            Finish("read", h, FALSE, region, count, files[h].f_pos, r)

\* write(2): s_write with offset = &file->f_pos
SeqWrite(h, region, count) ==
    /\ files[h].open /\ nops < MaxSeqOps
    /\ \E r \in {s_write(devs[files[h].private_data], region, count,
                          files[h].f_pos)} :
            Finish("write", h, FALSE, region, count, files[h].f_pos, r)

\* pwrite(2): s_write with offset = the caller's position; f_pos is left
SeqPWrite(h, region, count, off) ==
    /\ files[h].open /\ nops < MaxSeqOps
    /\ \E r \in {s_write(devs[files[h].private_data], region, count, off)} :
            Finish("write", h, TRUE, region, count, off, r)

SeqNext ==
    \/ \E h \in Handles, c \in cdev_map : s_open(h, c)
    \/ \E h \in Handles : s_release(h)
    \/ \E h \in Handles, g \in Regions, n \in Counts : SeqRead(h, g, n)
    \/ \E h \in Handles, g \in Regions, n \in Counts : SeqWrite(h, g, n)
    \/ \E h \in Handles, g \in Regions, n \in Counts, o \in Positions :
            SeqPWrite(h, g, n, o)

SpecSeq == Loaded /\ [][SeqNext]_vars

(* ---------------------------------------------------------------------- *)
(* The loaded module under concurrent use: one s_read call and one s_write *)
(* call through two files, copy_to_user and copy_from_user moving one byte *)
(* at a step; the driver takes no lock.                                    *)
(* ---------------------------------------------------------------------- *)
\* the requested sizes of the concurrent calls
ConcCounts == {4, 9}

\* s_read is entered: data = file->private_data; len = min(...)
ConcRdBegin(h, region, count) ==
    /\ pc = "loaded"
    /\ files[h].open
    /\ rd.pc = "idle"
    /\ wr.h # h
    /\ rd' = [pc |-> "copy", h |-> h, region |-> region,
              off |-> files[h].f_pos,
              len |-> EffectiveLen(devs[files[h].private_data], count,
                                   files[h].f_pos),
              k |-> 0, data |-> <<>>, ret |-> 0,
              wr0 |-> wr.pc, wr1 |-> "idle"]
    /\ UNCHANGED <<devs, major, chrdevs, cdev_map, files, pc, idx, last,
                   wrote, nops, wr>>

\* ConcRdByte that takes the byte one place further on
ConcRdByte_Mut ==
    /\ rd.pc = "copy"
    /\ rd.k < Accessible(rd.region, rd.len)
    /\ rd' = [rd EXCEPT
                !.k = @ + 1,
                !.data = Append(@, Mem(devs[files[rd.h].private_data])
                                        [rd.off + rd.k + 2])]
    /\ UNCHANGED <<devs, major, chrdevs, cdev_map, files, pc, idx, last,
                   wrote, nops, wr>>

\* copy_to_user moves the byte at data->buffer + *offset + k
ConcRdByte ==
    /\ rd.pc = "copy"
    /\ rd.k < Accessible(rd.region, rd.len)
    /\ rd' = [rd EXCEPT
                !.k = @ + 1,
                !.data = Append(@, Mem(devs[files[rd.h].private_data])
                                        [rd.off + rd.k + 1])]
    /\ UNCHANGED <<devs, major, chrdevs, cdev_map, files, pc, idx, last,
                   wrote, nops, wr>>

\* copy_to_user has ended: return 0 for len <= 0, -EFAULT when bytes are
\* left, else *offset += len; return len
ConcRdEnd ==
    /\ rd.pc = "copy"
    /\ rd.k = Accessible(rd.region, rd.len)
    /\ LET ok == rd.k = rd.len
       IN  /\ rd' = [rd EXCEPT
                        !.pc = "done",
                        !.ret = IF ok THEN rd.len ELSE -EFAULT,
                        !.wr1 = wr.pc]
           /\ files' = IF ok
                       THEN [files EXCEPT ![rd.h].f_pos = @ + rd.len]
                       ELSE files
    /\ UNCHANGED <<devs, major, chrdevs, cdev_map, pc, idx, last, wrote,
                   nops, wr>>

\* s_write is entered: data = file->private_data; len = min(...)
ConcWrBegin(h, region, count) ==
    /\ pc = "loaded"
    /\ files[h].open
    /\ wr.pc = "idle"
    /\ rd.h # h
    /\ wr' = [pc |-> "copy", h |-> h, region |-> region,
              off |-> files[h].f_pos,
              len |-> EffectiveLen(devs[files[h].private_data], count,
                                   files[h].f_pos),
              k |-> 0, before |-> devs[files[h].private_data].buffer,
              after |-> <<>>, ret |-> 0]
    /\ UNCHANGED <<devs, major, chrdevs, cdev_map, files, pc, idx, last,
                   wrote, nops, rd>>

\* copy_from_user stores byte k of the user region, or 0 once it has
\* faulted, at data->buffer + *offset + k
ConcWrByte ==
    /\ wr.pc = "copy"
    /\ wr.k < wr.len
    /\ devs' = [devs EXCEPT ![files[wr.h].private_data] =
                    MemStore(@, wr.off + wr.k,
                             IF wr.k < Accessible(wr.region, wr.len)
                             THEN <<USER_REGION[wr.k + 1]>>
                             ELSE <<0>>)]
    /\ wr' = [wr EXCEPT !.k = @ + 1]
    /\ UNCHANGED <<major, chrdevs, cdev_map, files, pc, idx, last, wrote,
                   nops, rd>>

\* copy_from_user has ended: return 0 for len <= 0, -EFAULT when bytes
\* were left, else *offset += len; return len
ConcWrEnd ==
    /\ wr.pc = "copy"
    /\ wr.k = wr.len
    /\ LET ok == Accessible(wr.region, wr.len) = wr.len
       IN  /\ wr' = [wr EXCEPT
                        !.pc = "done",
                        !.ret = IF ok THEN wr.len ELSE -EFAULT,
                        !.after = devs[files[wr.h].private_data].buffer]
           /\ files' = IF ok
                       THEN [files EXCEPT ![wr.h].f_pos = @ + wr.len]
                       ELSE files
    /\ UNCHANGED <<devs, major, chrdevs, cdev_map, pc, idx, last, wrote,
                   nops, rd>>

ConcNext ==
    \/ \E h \in Handles, c \in cdev_map : s_open(h, c)
    \/ \E h \in Handles, g \in Regions, n \in ConcCounts :
            ConcRdBegin(h, g, n)
    \/ ConcRdByte
    \/ ConcRdEnd
    \/ \E h \in Handles, g \in Regions, n \in ConcCounts :
            ConcWrBegin(h, g, n)
    \/ ConcWrByte
    \/ ConcWrEnd

SpecConc == Loaded /\ [][ConcNext]_vars

(* ---------------------------------------------------------------------- *)
(* Vocabulary of the properties                                            *)
(* ---------------------------------------------------------------------- *)
\* the last call was a read or a write
IsRW == last.op \in {"read", "write"}
\* the step is a read or write call
RWStep == nops' = nops + 1
\* the step is an open or a release
OpenCloseStep == \E h \in Handles : files'[h].open # files[h].open
\* the user-memory copy of the last call could not complete
Faulted == IsRW /\ last.len > Accessible(last.region, last.len)
\* devs[i] is as the loader found it: zero-filled, no cdev set up
Uninitialized(i) ==
    /\ devs[i].buffer = ZeroBuffer
    /\ devs[i].size = ToSizeT(0)
    /\ devs[i].cdev = "zero"

(* ---------------------------------------------------------------------- *)
(* C1  Bounds safety: every buffer index a read or write call touches      *)
(* lies in [0, size) with size = 512, whatever offset O >= 0 and length    *)
(* N the caller supplies; no call accesses an index >= size.               *)
(* Fails: with *offset > size the unsigned difference wraps.               *)
(* ---------------------------------------------------------------------- *)
C1_BoundsSafety ==
    (IsRW /\ last.hi > last.lo) => (last.lo >= 0 /\ last.hi <= BUFSIZE)

(* ---------------------------------------------------------------------- *)
(* C2  Exhaustion: a read or write whose offset is at or beyond size       *)
(* (offset >= 512) returns 0, transfers no byte, and leaves the offset     *)
(* and the buffer unchanged.  Fails for offset > 512.                      *)
(* ---------------------------------------------------------------------- *)
C2_Exhaustion ==
    [][(RWStep /\ last'.off >= BUFSIZE) =>
          /\ last'.ret = 0
          /\ last'.hi = last'.lo
          /\ last'.noff = last'.off
          /\ files' = files
          /\ devs' = devs]_vars

(* ---------------------------------------------------------------------- *)
(* C3  Capacity clamp: the number of bytes a read or write transfers is    *)
(* min(N, size - O) for requested length N and offset O (nothing when      *)
(* that is not positive); with O + N > size exactly size - O bytes.        *)
(* Fails for O > size, where N bytes are transferred.                      *)
(* ---------------------------------------------------------------------- *)
C3_CapacityClamp ==
    (IsRW /\ ~Faulted) =>
        LET want == Min(last.count, BUFSIZE - last.off)
        IN  /\ last.hi - last.lo = (IF want > 0 THEN want ELSE 0)
            /\ last.ret = (IF want > 0 THEN want ELSE 0)

(* ---------------------------------------------------------------------- *)
(* C4  Write visibility and round trip: after a write of the bytes B at    *)
(* offset O through handle H1 succeeded (B fits in the buffer), a read of  *)
(* len(B) bytes at offset O through another handle H2, with no write in    *)
(* between, returns len(B) and exactly B; also when H2 was opened after    *)
(* H1 was closed.                                                          *)
(* ---------------------------------------------------------------------- *)
C4_WriteVisible ==
    ( /\ last.op = "read"
      /\ last.region = "all"
      /\ wrote.ret > 0
      /\ wrote.ret = wrote.count
      /\ wrote.off + wrote.count <= BUFSIZE
      /\ last.h # wrote.h
      /\ last.off = wrote.off
      /\ last.count = wrote.count )
    => ( /\ last.ret = wrote.count
         /\ last.data = UserBytes(wrote.count) )

\* H1 wrote and was closed; H2 read the bytes back
C4_Witness ==
    /\ last.op = "read"
    /\ last.region = "all"
    /\ wrote.ret > 0
    /\ wrote.ret = wrote.count
    /\ wrote.off + wrote.count <= BUFSIZE
    /\ last.h # wrote.h
    /\ ~files[wrote.h].open
    /\ last.off = wrote.off
    /\ last.count = wrote.count
    /\ last.data = UserBytes(wrote.count)
    /\ last.data # SubSeq(Init_buffer, wrote.off + 1, wrote.off + wrote.count)

(* ---------------------------------------------------------------------- *)
(* C5  Fault leaves the cursor alone: when the user-memory copy of a read  *)
(* or write cannot complete, the call returns -EFAULT, not a byte count,   *)
(* and the caller's offset has the same value after the call as before.    *)
(* ---------------------------------------------------------------------- *)
C5_FaultKeepsOffset ==
    Faulted =>
        /\ last.ret = -EFAULT
        /\ last.noff = last.off
        /\ files[last.h].open => (~last.pos => files[last.h].f_pos = last.off)

\* a read and a write have faulted, away from offset 0
C5_Witness ==
    /\ Faulted
    /\ last.off > 0
    /\ last.ret = -EFAULT

(* ---------------------------------------------------------------------- *)
(* C6  Fault is all-or-nothing: a write that fails with -EFAULT leaves     *)
(* every byte of the buffer, and size, as it was before the call.          *)
(* Fails: copy_from_user stores the accessible prefix straight into        *)
(* data->buffer and zero-fills the rest before the fault is reported.      *)
(* ---------------------------------------------------------------------- *)
C6_FaultAllOrNothing ==
    [][(RWStep /\ last'.op = "write" /\ last'.ret = -EFAULT) =>
          devs' = devs]_vars

(* ---------------------------------------------------------------------- *)
(* C7  Initialization: after the load and before any write, a read of 12   *)
(* bytes at offset 0 through a newly opened handle returns 12 and the      *)
(* bytes of "Hello World\n".                                               *)
(* ---------------------------------------------------------------------- *)
C7_Greeting ==
    ( /\ last.op = "read"
      /\ last.region = "all"
      /\ wrote.calls = 0
      /\ last.off = 0
      /\ last.count = 12 )
    => ( /\ last.ret = 12
         /\ last.data = <<72, 101, 108, 108, 111, 32, 87, 111, 114, 108,
                          100, 10>> )

\* the first call on a fresh handle read the greeting
C7_Witness ==
    /\ last.op = "read"
    /\ last.region = "all"
    /\ ~last.pos
    /\ wrote.calls = 0
    /\ nops = 1
    /\ last.off = 0
    /\ last.count = 12
    /\ last.ret = 12

(* ---------------------------------------------------------------------- *)
(* C8  Offset independence: a read or write through one handle changes     *)
(* only that handle's cursor; every other handle (its cursor included)     *)
(* is as it was.                                                           *)
(* ---------------------------------------------------------------------- *)
C8_OffsetIndependence ==
    [][RWStep =>
          \A h \in Handles : h # last'.h => files'[h] = files[h]]_vars

\* both handles are open on the device, one cursor has advanced, the
\* other has not
C8_Witness ==
    /\ IsRW
    /\ ~last.pos
    /\ last.ret > 0
    /\ \A h \in Handles : files[h].open /\ files[h].private_data = 0
    /\ files[last.h].f_pos = last.off + last.ret
    /\ \E h \in Handles : h # last.h /\ files[h].f_pos = 0

(* ---------------------------------------------------------------------- *)
(* C9  Open and release are effect-free on the device: each returns 0 and  *)
(* leaves buffer and size of every Device Instance unchanged; open binds   *)
(* the handle to the instance whose cdev the node names.                   *)
(* ---------------------------------------------------------------------- *)
C9_OpenReleaseFrame ==
    [][OpenCloseStep =>
          /\ last'.op \in {"open", "release"}
          /\ last'.ret = 0
          /\ devs' = devs
          /\ (last'.op = "open" =>
                /\ files'[last'.h].private_data \in Minors
                /\ files'[last'.h].f_pos = 0
                /\ \E c \in cdev_map :
                      c.dev = files'[last'.h].private_data)]_vars

\* a handle was released, and another opened, after a write had changed
\* the buffer
C9_Witness ==
    /\ last.op = "open"
    /\ wrote.ret > 0
    /\ ~files[wrote.h].open
    /\ files[last.h].private_data = 0
    /\ devs[0].buffer # Init_buffer

(* ---------------------------------------------------------------------- *)
(* C10  Load failure is clean: when acquiring the device-number range      *)
(* fails, load returns a non-zero status, and then no device is published, *)
(* no device-number range is held and no Device Instance is initialized.   *)
(* ---------------------------------------------------------------------- *)
C10_LoadFailureClean ==
    pc = "init_failed" =>
        /\ last.op = "init_func"
        /\ last.ret # 0
        /\ cdev_map = {}
        /\ chrdevs = {}
        /\ \A i \in Minors : Uninitialized(i)

\* the load has failed
C10_Witness ==
    /\ pc = "init_failed"
    /\ last.ret = 1

(* ---------------------------------------------------------------------- *)
(* C11  Load success means published: when init_func returns 0 (after its  *)
(* success log line) every configured minor's device has been published,   *)
(* also when the host's publish step can fail.                             *)
(* Fails: the return value of cdev_add is not looked at.                   *)
(* ---------------------------------------------------------------------- *)
C11_SuccessMeansPublished ==
    (last.op = "init_func" /\ last.ret = 0) =>
        \A i \in Minors : \E c \in cdev_map : c.dev = i

(* ---------------------------------------------------------------------- *)
(* C12  Unload ordering: every published minor is withdrawn before the     *)
(* device-number range is released, and when exit_func has returned no     *)
(* device is published and the range acquired at load is not held.         *)
(* ---------------------------------------------------------------------- *)
C12_UnloadOrdering ==
    [][/\ (pc = "exit_loop" /\ chrdevs' # chrdevs) => cdev_map = {}
       /\ pc' = "exited" => (cdev_map' = {} /\ chrdevs' = {})]_vars

\* the module was unloaded after its device had been published and used
C12_Witness ==
    /\ pc = "exited"
    /\ devs[0].cdev = "deleted"
    /\ \E h \in Handles : files[h].released
    /\ cdev_map = {}
    /\ chrdevs = {}

(* ---------------------------------------------------------------------- *)
(* C13  Size is constant: from the end of the load until unload, after     *)
(* any sequence of open/read/write/release calls, size is 512.             *)
(* Fails: a write at an offset in (512, 520) stores into the bytes of      *)
(* size, which follow buffer in struct s_driver_dev_data.                  *)
(* ---------------------------------------------------------------------- *)
C13_SizeConstant ==
    pc = "loaded" => \A i \in Minors : devs[i].size = ToSizeT(BUFSIZE)

(* ---------------------------------------------------------------------- *)
(* C15  Return value, bytes copied and cursor advance agree: a read or     *)
(* write that returns n > 0 has copied exactly the n bytes at              *)
(* data->buffer + O, O being *offset at entry, and leaves *offset = O + n. *)
(* ---------------------------------------------------------------------- *)
C15_ReturnCopyAdvance ==
    (IsRW /\ last.ret > 0) =>
        LET d == devs[0]
            \* the part of the range that lies in the device data
            inside == Min(last.ret, BUFSIZE + SIZEOF_SIZE_T - last.off)
        IN  /\ last.ret = last.len
            /\ last.lo = last.off
            /\ last.hi = last.off + last.ret
            /\ last.noff = last.off + last.ret
            /\ (~last.pos /\ files[last.h].open) =>
                    files[last.h].f_pos = last.off + last.ret
            /\ last.op = "read" =>
                    /\ Len(last.data) = last.ret
                    /\ last.data = MemRange(d, last.off, last.ret)
            /\ (last.op = "write" /\ inside > 0) =>
                    MemRange(d, last.off, inside) = UserBytes(inside)

\* a clamped read and a clamped write have returned fewer bytes than asked
C15_Witness ==
    /\ IsRW
    /\ last.ret > 0
    /\ last.ret < last.count
    /\ last.off + last.ret = BUFSIZE

(* ---------------------------------------------------------------------- *)
(* C16  Published device numbers lie inside the acquired range: every      *)
(* (major, minor) that load publishes has its minor in                     *)
(* [FIRST_MINOR, FIRST_MINOR + NUM_MINORS), and the range released at      *)
(* unload is the range acquired at load.                                   *)
(* Fails: the range is acquired from FIRST_MINOR = 1, the cdev is added    *)
(* at MKDEV(major, i) with i from 0.                                       *)
(* ---------------------------------------------------------------------- *)
C16_PublishedInRange ==
    /\ \A c \in cdev_map :
          \E r \in chrdevs :
              /\ r.major = c.major
              /\ c.minor >= r.first
              /\ c.minor < r.first + r.count
    /\ pc = "exited" => chrdevs = {}

(* ---------------------------------------------------------------------- *)
(* C17  Initialization precedes publication: from the moment a minor's     *)
(* device is published, and as long as no write call has been made, its    *)
(* buffer holds the greeting and its size is 512; an open or read that     *)
(* runs before init_func has returned finds the instance initialized.      *)
(* ---------------------------------------------------------------------- *)
C17_InitBeforePublish ==
    /\ \A c \in cdev_map :
          wrote.calls = 0 =>
              /\ devs[c.dev].buffer = Init_buffer
              /\ devs[c.dev].size = ToSizeT(BUFSIZE)
    /\ \A h \in Handles :
          files[h].open => devs[files[h].private_data].cdev = "added"

\* a read made before init_func returned got the greeting
C17_Witness ==
    /\ pc = "init_loop"
    /\ last.op = "read"
    /\ last.off = 0
    /\ last.ret = 12
    /\ last.data = MESSAGE

(* ---------------------------------------------------------------------- *)
(* C18  Frame of read and write: a read changes no buffer byte; a write    *)
(* that returns n > 0 at offset O changes only buffer bytes at indices in  *)
(* [O, O + n) and leaves every other buffer byte as it was.                *)
(* ---------------------------------------------------------------------- *)
C18_Frame ==
    [][RWStep =>
          LET i == files[last'.h].private_data
              old == devs[i].buffer
              new == devs'[i].buffer
              from == Min(last'.off, BUFSIZE)
              to == Min(last'.off + last'.ret, BUFSIZE)
          IN  /\ \A j \in Minors : j # i => devs'[j] = devs[j]
              /\ last'.op = "read" => new = old
              /\ (last'.op = "write" /\ last'.ret > 0) =>
                    /\ SubSeq(new, 1, from) = SubSeq(old, 1, from)
                    /\ SubSeq(new, to + 1, BUFSIZE) =
                            SubSeq(old, to + 1, BUFSIZE)]_vars

\* "test data" was written at offset 0 of the freshly loaded device; the
\* byte at index 9 is still the greeting's
C18_Witness ==
    /\ last.op = "write"
    /\ wrote.calls = 1
    /\ last.off = 0
    /\ last.ret = 9
    /\ SubSeq(devs[0].buffer, 1, 9) = USER_DATA
    /\ devs[0].buffer[10] = MESSAGE[10]

(* ---------------------------------------------------------------------- *)
(* C19  Sequential cursor stays in range and reaches end-of-data: f_pos,   *)
(* which starts at 0 at open and is moved only by read and write through   *)
(* the file, is the number of bytes those calls transferred and stays in   *)
(* 0 .. 512; a read through f_pos below 512 that does not fault returns a  *)
(* positive count that does not pass 512, and every read or write through  *)
(* f_pos = 512 returns 0.                                                  *)
(* Fails: once a write at a position in (512, 520) has overwritten size    *)
(* (C13), a read through f_pos = 512 returns its full count.               *)
(* ---------------------------------------------------------------------- *)
C19_SequentialCursor ==
    /\ \A h \in Handles :
          files[h].open => (0 <= files[h].f_pos /\ files[h].f_pos <= BUFSIZE)
    /\ (IsRW /\ ~last.pos) =>
          /\ last.ret >= 0 \/ Faulted
          /\ last.off = BUFSIZE => last.ret = 0
          /\ (last.op = "read" /\ last.off < BUFSIZE /\ ~Faulted) =>
                (0 < last.ret /\ last.ret <= BUFSIZE - last.off)

(* ---------------------------------------------------------------------- *)
(* C14  Torn reads: a read that runs while a write through another file    *)
(* stores into the same bytes, the copies moving a byte at a time and no   *)
(* lock held, can return bytes that are neither the buffer as it was       *)
(* before the write nor as it is after it. What it returns is a mix of     *)
(* the two: every returned byte is the old or the new byte of its index,   *)
(* all old when the write was entered after the read returned and all new  *)
(* when the write returned before the read was entered.                    *)
(* ---------------------------------------------------------------------- *)
C14_TornReads ==
    (rd.pc = "done" /\ rd.ret > 0) =>
        LET cur == devs[files[rd.h].private_data].buffer
            old == IF wr.pc = "idle" THEN cur ELSE wr.before
            new == IF wr.pc = "done" THEN wr.after ELSE cur
        IN  /\ Len(rd.data) = rd.ret
            /\ \A j \in 1 .. rd.ret :
                    rd.data[j] \in {old[rd.off + j], new[rd.off + j]}
            /\ rd.wr1 = "idle" =>
                    rd.data = SubSeq(old, rd.off + 1, rd.off + rd.ret)
            /\ rd.wr0 = "done" =>
                    rd.data = SubSeq(new, rd.off + 1, rd.off + rd.ret)

\* a read and a write through two files have both returned, and what the
\* read returned is neither the bytes before the write nor those after it
C14_Witness ==
    /\ rd.pc = "done"
    /\ wr.pc = "done"
    /\ rd.h # wr.h
    /\ rd.ret > 0
    /\ wr.ret > 0
    /\ rd.off < wr.off + wr.ret
    /\ wr.off < rd.off + rd.ret
    /\ rd.data # SubSeq(wr.before, rd.off + 1, rd.off + rd.ret)
    /\ rd.data # SubSeq(wr.after, rd.off + 1, rd.off + rd.ret)

====
